---- MODULE Spec2Model ----
(***************************************************************************)
(* Batching layer of the Ember renderer (Ember/src/Renderer.cpp).          *)
(*                                                                         *)
(* The static RendererData singleton is the record renderer_data.  The     *)
(* staging index array is kept as the sequence of values between           *)
(* index_base and index_ptr; the staging vertex array is kept as its       *)
(* length (vertices_ptr - vertices_base) and the set of                    *)
(* <<texture_id, handle>> pairs stamped on the vertices it holds.  The     *)
(* GPU side is the sequence of submissions (one per Render call) made by   *)
(* the most recent public operation.  Pointers are element offsets from    *)
(* the base of their array.                                                *)
(***************************************************************************)
EXTENDS Integers, Sequences, FiniteSets

VARIABLES renderer_data, scene

vars == <<renderer_data, scene>>

(* ------------------------------------------------------------------ *)
(* Limits (Renderer.h) and per-primitive counts.                       *)
(* ------------------------------------------------------------------ *)
MAX_VERTEX_COUNT == 24
MAX_INDEX_COUNT == (3 * MAX_VERTEX_COUNT) \div 2
MAX_TEXTURE_SLOTS == 2
MAX_DRAW_COMMANDS == 3

QUAD_VERTEX_COUNT == 4
TRIANGLE_VERTEX_COUNT == 3
CUBE_VERTEX_COUNT == 24
CUBE_FACES == 6

(* Bounds of the exploration *)
NumTextures == 2
MaxTextLen == 2

TextureIds == 1..NumTextures
NullPtr == -1
NoTexture == -1
NoHandle == 0

(* uint32_t current_material_id = -1: the value 2^32 - 1, kept as its two
   16-bit halves *)
UnsetMaterialId == [hi |-> 65535, lo |-> 65535]

(* SetMaterialId(uint32_t): an id a float holds exactly and one it does not
   (2^24 + 1) *)
MaterialIds == {[hi |-> 0, lo |-> 1], [hi |-> 256, lo |-> 1]}

Shaders == {"default", "custom"}

(* a camera's projection and view, as 1x1 matrices *)
Cameras == {[projection |-> 1, view |-> 2], [projection |-> 2, view |-> 3]}
NullCamera == [projection |-> 0, view |-> 0]
RenderFlagsValues == {0, 1}

(* sizeof(Texture) in units of sizeof(uint32_t) *)
SizeofTextureWords == 1

(* ------------------------------------------------------------------ *)
(* (float) of a uint32_t: IEEE-754 binary32, round to nearest even.    *)
(* A float is sign, odd mantissa and exponent: (-1)^sign * mant * 2^exp *)
(* ------------------------------------------------------------------ *)
RECURSIVE Bits(_)
Bits(n) == IF n = 0 THEN 0 ELSE 1 + Bits(n \div 2)

RECURSIVE Float(_, _, _)
Float(sign, mant, exp) ==
    IF mant = 0 THEN [sign |-> 0, mant |-> 0, exp |-> 0]
    ELSE IF mant % 2 = 0 THEN Float(sign, mant \div 2, exp + 1)
    ELSE [sign |-> sign, mant |-> mant, exp |-> exp]

UInt32ToFloat(id) ==
    IF Bits(id.hi) <= 8
    THEN Float(0, id.hi * 65536 + id.lo, 0)
    ELSE LET shift == Bits(id.hi) - 8
             p == 2 ^ shift
             kept == id.hi * (65536 \div p) + (id.lo \div p)
             rest == id.lo % p
             up == rest > p \div 2 \/ (rest = p \div 2 /\ kept % 2 = 1)
         IN  Float(0, IF up THEN kept + 1 ELSE kept, shift)

(* the conversion, tabulated over the ids current_material_id takes *)
MaterialFloat == [id \in MaterialIds \cup {UnsetMaterialId} |-> UInt32ToFloat(id)]

DrawElementsCommand(vertex_count, instance_count, first_index, base_vertex, base_instance) ==
    [vertex_count |-> vertex_count, instance_count |-> instance_count,
     first_index |-> first_index, base_vertex |-> base_vertex,
     base_instance |-> base_instance]

(* static RendererData renderer_data: zero-initialised storage, then the
   in-class initialisers *)
RendererData ==
    [index_offset |-> 0,
     texture_slot_index |-> 0,
     textures |-> [i \in 0..(MAX_TEXTURE_SLOTS - 1) |-> 0],
     num_of_vertices_in_batch |-> 0,
     draw_commands |-> [i \in 0..(MAX_DRAW_COMMANDS - 1) |-> DrawElementsCommand(0, 0, 0, 0, 0)],
     base_vert |-> 0,
     draw_count |-> 0,
     current_draw_command_vertex_size |-> 0,
     vertices_ptr |-> NullPtr,
     index_ptr |-> NullPtr,
     current_shader |-> "null",
     current_material_id |-> UnsetMaterialId,
     proj_view |-> 1,
     camera |-> NullCamera,
     flags |-> 0,
     \* staging arrays between base and cursor
     indices |-> << >>,
     vertex_tex |-> {},
     \* material_id of the staged vertices, with the id active when written,
     \* and the shaders active when they were written
     vertex_material |-> {},
     vertex_shader |-> {},
     \* bookkeeping of what the code did
     finalized |-> {},
     \* vertices written since the last GoToNextDrawCommand, and what that
     \* count was when command i was left
     command_vertices |-> 0,
     drawn |-> [i \in 0..(MAX_DRAW_COMMANDS - 1) |-> 0],
     overrun |-> {},
     submitted |-> << >>,
     \* the quads of the most recent RenderText call: character, cursor x
     \* and the x of the quad's first corner
     text_quads |-> << >>]

(* ------------------------------------------------------------------ *)
(* Batch lifecycle                                                     *)
(* ------------------------------------------------------------------ *)
(* a restart that keeps the base-vertex accumulator *)
StartBatchKeepBaseVert(s) ==
    [s EXCEPT !.textures = [i \in DOMAIN s.textures |->
                               IF i < s.texture_slot_index * SizeofTextureWords
                               THEN 0 ELSE s.textures[i]],
              !.texture_slot_index = 0,
              !.num_of_vertices_in_batch = 0,
              !.index_offset = 0,
              !.draw_count = 0,
              !.current_draw_command_vertex_size = 0,
              !.vertices_ptr = 0,
              !.index_ptr = 0,
              !.indices = << >>,
              !.vertex_tex = {},
              !.vertex_material = {},
              !.vertex_shader = {},
              !.finalized = {},
              !.command_vertices = 0,
              !.drawn = [i \in DOMAIN s.drawn |-> 0]]

(* The memset clears texture_slot_index * sizeof(Texture) bytes from the start
   of the table; a length that passes the end of the table is recorded. *)
StartBatch(s) ==
    [s EXCEPT !.textures = [i \in DOMAIN s.textures |->
                               IF i < s.texture_slot_index * SizeofTextureWords
                               THEN 0 ELSE s.textures[i]],
              !.overrun = IF s.texture_slot_index * SizeofTextureWords > MAX_TEXTURE_SLOTS
                          THEN @ \cup {"textures"} ELSE @,
              !.texture_slot_index = 0,
              !.num_of_vertices_in_batch = 0,
              !.index_offset = 0,
              !.base_vert = 0,
              !.draw_count = 0,
              !.current_draw_command_vertex_size = 0,
              !.vertices_ptr = 0,
              !.index_ptr = 0,
              !.indices = << >>,
              !.vertex_tex = {},
              !.vertex_material = {},
              !.vertex_shader = {},
              !.finalized = {},
              !.command_vertices = 0,
              !.drawn = [i \in DOMAIN s.drawn |-> 0]]

(* One GPU submission: the uploaded command table, the uploaded byte ranges
   (in elements) and the descriptor count handed to DrawMultiIndirect. *)
Render(s) ==
    [s EXCEPT !.submitted = Append(@,
        [multi_draw_count |-> s.draw_count + 1,
         command_count |-> s.draw_count,
         commands |-> s.draw_commands,
         finalized |-> s.finalized,
         vertex_buf_size |-> s.vertices_ptr,
         index_buf_size |-> s.index_ptr,
         texture_slot_index |-> s.texture_slot_index,
         textures |-> s.textures,
         vertex_tex |-> s.vertex_tex,
         vertex_shader |-> s.vertex_shader,
         shader |-> s.current_shader,
         proj_view |-> s.proj_view])]

NewBatch(s) == StartBatch(Render(s))

(* ------------------------------------------------------------------ *)
(* Draw-command builder                                                *)
(* ------------------------------------------------------------------ *)
GoToNextDrawCommand(s) ==
    [s EXCEPT !.draw_count = @ + 1,
              !.base_vert = @ + s.num_of_vertices_in_batch,
              !.current_draw_command_vertex_size = 0,
              !.drawn = [i \in DOMAIN s.drawn |->
                            IF i = s.draw_count THEN s.command_vertices ELSE s.drawn[i]],
              !.command_vertices = 0]

MakeCommand(s) ==
    IF s.draw_count < MAX_DRAW_COMMANDS
    THEN [s EXCEPT !.draw_commands[s.draw_count] =
                        DrawElementsCommand(s.current_draw_command_vertex_size, 1, 0,
                                            s.base_vert, s.draw_count),
                   !.finalized = @ \cup {s.draw_count}]
    ELSE \* the store lands behind the table
         [s EXCEPT !.overrun = @ \cup {"draw_commands"}]

(* ------------------------------------------------------------------ *)
(* Staging writes                                                      *)
(* ------------------------------------------------------------------ *)
WriteIndices(s, values) ==
    [s EXCEPT !.indices = @ \o values,
              !.index_ptr = @ + Len(values),
              !.overrun = IF s.index_ptr + Len(values) > MAX_INDEX_COUNT
                          THEN @ \cup {"index"} ELSE @]

(* the square indices with the offset advanced by the index count *)
CalculateSquareIndicesAdvanceSix(s) ==
    LET o == s.index_offset
        w == WriteIndices(s, <<o, 1 + o, 2 + o, 2 + o, 3 + o, o>>)
    IN  [w EXCEPT !.index_offset = @ + 6]

CalculateSquareIndices(s) ==
    LET o == s.index_offset
        w == WriteIndices(s, <<o, 1 + o, 2 + o, 2 + o, 3 + o, o>>)
    IN  [w EXCEPT !.index_offset = @ + 4]

(* the triangle emitter's indices written as a square's *)
CalculateTriangleIndicesAsSquare(s) ==
    LET o == s.index_offset
        w == WriteIndices(s, <<o, 1 + o, 2 + o, 2 + o, 3 + o, o>>)
    IN  [w EXCEPT !.index_offset = @ + 3]

CalculateTriangleIndices(s) ==
    LET o == s.index_offset
        w == WriteIndices(s, <<o, 1 + o, 2 + o>>)
    IN  [w EXCEPT !.index_offset = @ + 3]

(* the loop "for i < count: *vertices_ptr = vertex; vertices_ptr++;
   num_of_vertices_in_batch++" of every emitter *)
WriteVertices(s, count, texture_id, handle) ==
    [s EXCEPT !.vertices_ptr = @ + count,
              !.num_of_vertices_in_batch = @ + count,
              !.vertex_tex = IF texture_id = NoTexture THEN @
                             ELSE @ \cup {<<texture_id, handle>>},
              !.vertex_material = @ \cup {<<s.current_material_id,
                                            MaterialFloat[s.current_material_id]>>},
              !.vertex_shader = @ \cup {s.current_shader},
              !.command_vertices = @ + count,
              !.overrun = @ \cup (IF s.vertices_ptr + count > MAX_VERTEX_COUNT
                                     THEN {"vertex"} ELSE {})
                            \cup (IF s.num_of_vertices_in_batch + count > MAX_VERTEX_COUNT
                                     THEN {"capacity"} ELSE {})]

(* ------------------------------------------------------------------ *)
(* Texture slot allocator: returns the state and the sampler index     *)
(* ------------------------------------------------------------------ *)
FoundSlots(s, id) == {i \in 0..(s.texture_slot_index - 1) : s.textures[i] = id}

MaxOf(S) == CHOOSE x \in S : \A y \in S : y <= x

(* the allocator without the flush-and-restart on a full table *)
CalculateTextureIndexNoFlush(s, id) ==
    IF FoundSlots(s, id) # {}
    THEN [s |-> s, texture_id |-> MaxOf(FoundSlots(s, id))]
    ELSE LET k == s.texture_slot_index
         IN  [s |-> IF k < MAX_TEXTURE_SLOTS
                    THEN [s EXCEPT !.textures[k] = id, !.texture_slot_index = k + 1]
                    ELSE [s EXCEPT !.texture_slot_index = k + 1,
                                   !.overrun = @ \cup {"textures"}],
              texture_id |-> k]

(* the allocator without the scan for an existing entry *)
CalculateTextureIndexNoScan(s, id) ==
    LET k == s.texture_slot_index
        a == IF k < MAX_TEXTURE_SLOTS
             THEN [s EXCEPT !.textures[k] = id, !.texture_slot_index = k + 1]
             ELSE [s EXCEPT !.texture_slot_index = k + 1,
                            !.overrun = @ \cup {"textures"}]
    IN  [s |-> IF a.texture_slot_index = MAX_TEXTURE_SLOTS THEN NewBatch(a) ELSE a,
         texture_id |-> k]

(* the allocator flushing before the assignment, once the table is full *)
CalculateTextureIndexFlushWhenFull(s, id) ==
    IF FoundSlots(s, id) # {}
    THEN [s |-> s, texture_id |-> MaxOf(FoundSlots(s, id))]
    ELSE LET b == IF s.texture_slot_index = MAX_TEXTURE_SLOTS THEN NewBatch(s) ELSE s
             k == b.texture_slot_index
         IN  [s |-> [b EXCEPT !.textures[k] = id, !.texture_slot_index = k + 1],
              texture_id |-> k]

CalculateTextureIndex(s, id) ==
    IF FoundSlots(s, id) # {}
    THEN [s |-> s, texture_id |-> MaxOf(FoundSlots(s, id))]
    ELSE LET k == s.texture_slot_index
             a == IF k < MAX_TEXTURE_SLOTS
                  THEN [s EXCEPT !.textures[k] = id, !.texture_slot_index = k + 1]
                  ELSE [s EXCEPT !.texture_slot_index = k + 1,
                                 !.overrun = @ \cup {"textures"}]
         IN  [s |-> IF a.texture_slot_index = MAX_TEXTURE_SLOTS THEN NewBatch(a) ELSE a,
              texture_id |-> k]

(* ------------------------------------------------------------------ *)
(* Primitive emitters                                                  *)
(* ------------------------------------------------------------------ *)
(* the quad emitter flushing already when the quad exactly fills the batch *)
DrawQuadFlushWhenExact(s, texture_id, handle) ==
    LET b == IF s.num_of_vertices_in_batch + QUAD_VERTEX_COUNT >= MAX_VERTEX_COUNT
             THEN NewBatch(s) ELSE s
        c == CalculateSquareIndices(b)
        d == WriteVertices(c, QUAD_VERTEX_COUNT, texture_id, handle)
    IN  [d EXCEPT !.current_draw_command_vertex_size = @ + 6]

DrawQuad(s, texture_id, handle) ==
    LET b == IF s.num_of_vertices_in_batch + QUAD_VERTEX_COUNT > MAX_VERTEX_COUNT
             THEN NewBatch(s) ELSE s
        c == CalculateSquareIndices(b)
        d == WriteVertices(c, QUAD_VERTEX_COUNT, texture_id, handle)
    IN  [d EXCEPT !.current_draw_command_vertex_size = @ + 6]

DrawQuadTextured(s, texture) ==
    LET r == CalculateTextureIndex(s, texture)
    IN  DrawQuad(r.s, r.texture_id, texture)

DrawTriangle(s) ==
    LET b == IF s.num_of_vertices_in_batch + QUAD_VERTEX_COUNT > MAX_VERTEX_COUNT
             THEN NewBatch(s) ELSE s
        c == CalculateTriangleIndices(b)
        d == WriteVertices(c, TRIANGLE_VERTEX_COUNT, NoTexture, NoHandle)
    IN  [d EXCEPT !.current_draw_command_vertex_size = @ + 3]

RECURSIVE SquareIndicesTimes(_, _)
SquareIndicesTimes(s, n) ==
    IF n = 0 THEN s ELSE SquareIndicesTimes(CalculateSquareIndices(s), n - 1)

(* the cube emitter checking capacity against the quad's vertex count *)
DrawCubeQuadCapacity(s, texture_id, handle) ==
    LET b == IF s.num_of_vertices_in_batch + QUAD_VERTEX_COUNT > MAX_VERTEX_COUNT
             THEN NewBatch(s) ELSE s
        c == SquareIndicesTimes(b, CUBE_FACES)
        d == WriteVertices(c, CUBE_VERTEX_COUNT, texture_id, handle)
    IN  [d EXCEPT !.current_draw_command_vertex_size = @ + 36]

DrawCube(s, texture_id, handle) ==
    LET b == IF s.num_of_vertices_in_batch + CUBE_VERTEX_COUNT > MAX_VERTEX_COUNT
             THEN NewBatch(s) ELSE s
        c == SquareIndicesTimes(b, CUBE_FACES)
        d == WriteVertices(c, CUBE_VERTEX_COUNT, texture_id, handle)
    IN  [d EXCEPT !.current_draw_command_vertex_size = @ + 36]

DrawCubeTextured(s, texture) ==
    LET r == CalculateTextureIndex(s, texture)
    IN  DrawCube(r.s, r.texture_id, texture)

(* Fonts: a texture and the glyph table; advance_x is in 1/64 pixel, and the
   two advances are not multiples of 64.  Positions and scales are small
   integers, which float arithmetic handles exactly. *)
Characters == {"A", "B"}
Glyphs == [c \in Characters |->
             IF c = "A" THEN [advance_x |-> 700, bearing_x |-> 1]
                        ELSE [advance_x |-> 1300, bearing_x |-> 2]]
Fonts == {[texture |-> texture, glyphs |-> Glyphs] : texture \in TextureIds}
Texts == UNION {[1..n -> Characters] : n \in 0..MaxTextLen}
TextPositions == {3}
TextScales == {1, 2}

(* body of the per-character loop of RenderText *)
RenderGlyph(s, font, c, x, scale_x) ==
    LET character == font.glyphs[c]
        xpos == x + character.bearing_x * scale_x
        b == IF s.num_of_vertices_in_batch + QUAD_VERTEX_COUNT > MAX_VERTEX_COUNT
             THEN NewBatch(s) ELSE s
        i == CalculateSquareIndices(b)
        r == CalculateTextureIndex(i, font.texture)
        d == WriteVertices(r.s, QUAD_VERTEX_COUNT, r.texture_id, font.texture)
    IN  [d EXCEPT !.current_draw_command_vertex_size = @ + 6,
                  !.text_quads = Append(@, [character |-> c, cursor |-> x,
                                            xpos |-> xpos])]

(* the text loop advancing the cursor by the unshifted advance *)
RECURSIVE RenderTextNoShift(_, _, _, _, _)
RenderTextNoShift(s, font, text, x, scale_x) ==
    IF text = << >> THEN s
    ELSE RenderTextNoShift(RenderGlyph(s, font, Head(text), x, scale_x), font, Tail(text),
                           x + font.glyphs[Head(text)].advance_x * scale_x, scale_x)

RECURSIVE RenderText(_, _, _, _, _)
RenderText(s, font, text, x, scale_x) ==
    IF text = << >> THEN s
    ELSE RenderText(RenderGlyph(s, font, Head(text), x, scale_x), font, Tail(text),
                    x + (font.glyphs[Head(text)].advance_x \div 64) * scale_x, scale_x)

(* ------------------------------------------------------------------ *)
(* Public operations                                                   *)
(*                                                                     *)
(* scene follows the caller: whether a scene is open, and, for a scene *)
(* that so far consists of at most QuadsTracked quad calls only, how   *)
(* many quads it has drawn, which texture handles they referenced      *)
(* (NoHandle for an untextured quad) and how many GPU submissions it   *)
(* has caused.                                                         *)
(* ------------------------------------------------------------------ *)
QuadsTracked == MAX_VERTEX_COUNT \div QUAD_VERTEX_COUNT + 1

Untracked(open) ==
    [open |-> open, tracked |-> FALSE, quads |-> 0, handles |-> {}, flushes |-> 0]

Call == [renderer_data EXCEPT !.submitted = << >>, !.text_quads = << >>]

Begun == renderer_data.vertices_ptr # NullPtr
Defined == renderer_data.overrun = {}
CanEmit == Begun /\ Defined

QuadCalled(handles, after) ==
    IF scene.tracked /\ scene.open /\ scene.quads < QuadsTracked
    THEN [scene EXCEPT !.quads = @ + 1,
                       !.handles = @ \cup handles,
                       !.flushes = @ + Len(after.submitted)]
    ELSE Untracked(scene.open)

Init ==
    /\ renderer_data = RendererData
    /\ scene = Untracked(FALSE)

BeginSceneWith(s, camera, flags) ==
    StartBatch([s EXCEPT !.flags = flags,
                         !.proj_view = camera.projection * camera.view,
                         !.camera = camera,
                         !.current_shader = "default",
                         !.current_material_id = UnsetMaterialId])

(* a shader change that flushes what was emitted under the old shader *)
SetShaderFlushing(s, shader) == [NewBatch(s) EXCEPT !.current_shader = shader]

SetShader(s, shader) == [s EXCEPT !.current_shader = shader]

SetShaderToDefualt(s) == [s EXCEPT !.current_shader = "default"]

SetMaterialId(s, material_id) == [s EXCEPT !.current_material_id = material_id]

(* binds its own shader, vertex array and index buffer and draws them: no
   field of renderer_data is read or written *)
Submit(s, shader) == s

DefaultCamera == CHOOSE camera \in Cameras : camera.projection = 1

BeginScene ==
    /\ Defined
    /\ renderer_data' = BeginSceneWith(Call, DefaultCamera, 0)
    /\ scene' = [open |-> TRUE, tracked |-> TRUE, quads |-> 0, handles |-> {},
                 flushes |-> 0]

EndScene ==
    /\ Begun /\ Defined
    /\ renderer_data' = Render(GoToNextDrawCommand(MakeCommand(Call)))
    /\ scene' = IF scene.tracked /\ scene.open
                THEN [scene EXCEPT !.open = FALSE, !.flushes = @ + 1]
                ELSE Untracked(FALSE)

(* DrawQuad(position, size, color); the custom-UV and rotated overloads
   without a texture and DrawLine reach DrawQuad(mat4, ...) with texture_id -1
   in the same way. *)
DrawQuadPlain ==
    /\ CanEmit
    /\ renderer_data' = DrawQuad(Call, NoTexture, NoHandle)
    /\ scene' = QuadCalled({NoHandle}, renderer_data')

(* the overloads taking a Texture* or a handle, rotated ones included *)
DrawQuadTexture ==
    /\ CanEmit
    /\ \E texture \in TextureIds :
         /\ renderer_data' = DrawQuadTextured(Call, texture)
         /\ scene' = QuadCalled({texture}, renderer_data')

DrawTrianglePlain ==
    /\ CanEmit
    /\ renderer_data' = DrawTriangle(Call)
    /\ scene' = Untracked(scene.open)

DrawCubePlain ==
    /\ CanEmit
    /\ renderer_data' = DrawCube(Call, NoTexture, NoHandle)
    /\ scene' = Untracked(scene.open)

DrawCubeTexture ==
    /\ CanEmit
    /\ \E texture \in TextureIds :
         /\ renderer_data' = DrawCubeTextured(Call, texture)
         /\ scene' = Untracked(scene.open)

DrawText ==
    /\ CanEmit
    /\ \E font \in Fonts, len \in 1..MaxTextLen :
         /\ renderer_data' = RenderText(Call, font, [k \in 1..len |-> "A"], 0, 1)
         /\ scene' = Untracked(scene.open)

(* The documented control flow: BeginScene, emitters, EndScene. *)
Next ==
    \/ BeginScene
    \/ scene.open /\ EndScene
    \/ scene.open /\ DrawQuadPlain
    \/ scene.open /\ DrawQuadTexture
    \/ scene.open /\ DrawTrianglePlain
    \/ scene.open /\ DrawCubePlain
    \/ scene.open /\ DrawCubeTexture
    \/ scene.open /\ DrawText

Spec == Init /\ [][Next]_vars

(* Any order of the public operations once the staging cursors are set. *)
NextAnyOrder ==
    \/ BeginScene
    \/ EndScene
    \/ DrawQuadPlain
    \/ DrawCubePlain

SpecAnyOrder == Init /\ [][NextAnyOrder]_vars

(* The scene bracket with every camera and flag value, quads, and the
   operations that touch only the shader and the material id. *)
BeginSceneAny ==
    /\ Defined
    /\ \E camera \in Cameras, flags \in RenderFlagsValues :
         renderer_data' = BeginSceneWith(Call, camera, flags)
    /\ scene' = Untracked(TRUE)

CallSetShader ==
    /\ \E shader \in Shaders : renderer_data' = SetShader(Call, shader)
    /\ UNCHANGED scene

CallSetShaderToDefualt ==
    /\ renderer_data' = SetShaderToDefualt(Call)
    /\ UNCHANGED scene

CallSetMaterialId ==
    /\ \E material_id \in MaterialIds : renderer_data' = SetMaterialId(Call, material_id)
    /\ UNCHANGED scene

CallSubmit ==
    /\ \E shader \in Shaders : renderer_data' = Submit(Call, shader)
    /\ UNCHANGED scene

NextState ==
    \/ BeginSceneAny
    \/ scene.open /\ EndScene
    \/ scene.open /\ DrawQuadPlain
    \/ scene.open /\ DrawQuadTexture
    \/ CallSetShader
    \/ CallSetShaderToDefualt
    \/ CallSetMaterialId
    \/ CallSubmit

SpecState == Init /\ [][NextState]_vars

(* Text of every string, position and scale among textured quads. *)
DrawAnyText ==
    /\ CanEmit
    /\ \E font \in Fonts, text \in Texts, x \in TextPositions, scale_x \in TextScales :
         renderer_data' = RenderText(Call, font, text, x, scale_x)
    /\ scene' = Untracked(scene.open)

NextText ==
    \/ BeginScene
    \/ scene.open /\ EndScene
    \/ scene.open /\ DrawQuadTexture
    \/ scene.open /\ DrawAnyText

SpecText == Init /\ [][NextText]_vars

(* ================================================================== *)
(* Properties                                                          *)
(* ================================================================== *)
Submitted == renderer_data.submitted
Submissions == {Submitted[k] : k \in 1..Len(Submitted)}

RECURSIVE CoveredElements(_, _)
(* sum of the element counts of descriptors 0..n-1 of an uploaded table *)
CoveredElements(sub, n) ==
    IF n = 0 THEN 0
    ELSE CoveredElements(sub, n - 1)
         + (IF (n - 1) \in DOMAIN sub.commands THEN sub.commands[n - 1].vertex_count ELSE 0)

(* C1: at every GPU submission (NewBatch and EndScene) the element counts of
   the descriptors the multi-draw covers sum to the number of indices written
   into the staging index buffer since the last StartBatch, so no emitted
   primitive is lost at a flush. *)
C1_NoGeometryLost ==
    \A sub \in Submissions :
        CoveredElements(sub, sub.multi_draw_count) = sub.index_buf_size

(* C2: whenever an emitter writes its vertices, vertices_in_batch plus the
   primitive's vertex count is at most MAX_VERTEX_COUNT and the write stays
   inside the staging vertex array; vertices_in_batch <= MAX_VERTEX_COUNT in
   every reachable state; and the condition under which the emitters accept
   a call never fails once a scene has begun. *)
C2_VertexCapacity ==
    /\ renderer_data.overrun \cap {"vertex", "capacity"} = {}
    /\ renderer_data.num_of_vertices_in_batch <= MAX_VERTEX_COUNT
    /\ (renderer_data.vertices_ptr # NullPtr =>
          renderer_data.vertices_ptr <= MAX_VERTEX_COUNT)
    /\ (Begun => CanEmit)

(* C2 witness: a cube was written whole into the batch that a
   flush-and-restart of its own capacity check had just opened. *)
C2_Witness ==
    /\ scene.open
    /\ Len(Submitted) = 1
    /\ Submitted[1].vertex_buf_size > 0
    /\ renderer_data.num_of_vertices_in_batch = CUBE_VERTEX_COUNT

(* C3: at every flush, each sampler index s carried by a textured primitive
   of the submitted batch, obtained from the allocator for handle h, is below
   texture_slot_count and slot s of the texture table holds h. *)
C3_SlotsValidAtFlush ==
    \A sub \in Submissions :
        \A ref \in sub.vertex_tex :
            /\ ref[1] < sub.texture_slot_index
            /\ sub.textures[ref[1]] = ref[2]

(* C4: after every public call, index_offset = vertices_in_batch and every
   index value in the staging index buffer is below vertices_in_batch, so
   each primitive's indices are relative to the batch position of its own
   vertices. *)
C4_IndicesBatchRelative ==
    /\ renderer_data.index_offset = renderer_data.num_of_vertices_in_batch
    /\ \A i \in 1..Len(renderer_data.indices) :
           renderer_data.indices[i] < renderer_data.num_of_vertices_in_batch

(* C5: every flush's multi-draw covers exactly command_count descriptors,
   and each descriptor it covers was written by MakeCommand during the batch
   being flushed. *)
C5_DescriptorsFinalized ==
    \A sub \in Submissions :
        /\ sub.multi_draw_count = sub.command_count
        /\ \A i \in 0..(sub.multi_draw_count - 1) : i \in sub.finalized

(* C6: in every state reachable by any order of BeginScene, emitters and
   EndScene, command_count < MAX_DRAW_COMMANDS, and MakeCommand writes the
   draw-command table only at an index < MAX_DRAW_COMMANDS. *)
C6_CommandCountBounded ==
    /\ renderer_data.draw_count < MAX_DRAW_COMMANDS
    /\ "draw_commands" \notin renderer_data.overrun

(* C7: texture_slot_count never exceeds MAX_TEXTURE_SLOTS (also at the
   moment of a flush), every write to the texture table is at an index
   < MAX_TEXTURE_SLOTS, and after any public operation returns
   texture_slot_count < MAX_TEXTURE_SLOTS. *)
C7_TextureSlotsBounded ==
    /\ renderer_data.texture_slot_index < MAX_TEXTURE_SLOTS
    /\ "textures" \notin renderer_data.overrun
    /\ \A sub \in Submissions : sub.texture_slot_index <= MAX_TEXTURE_SLOTS

(* C7 witness: an assignment raised the slot count to MAX_TEXTURE_SLOTS and
   the batch was flushed and restarted before the operation returned. *)
C7_Witness ==
    /\ \E sub \in Submissions : sub.texture_slot_index = MAX_TEXTURE_SLOTS
    /\ renderer_data.texture_slot_index = 0

(* C8: the occupied slots hold pairwise distinct handles, and in a scene
   that has drawn K >= 1 quads all referencing one texture handle exactly
   one texture slot is occupied. *)
C8_OneSlotForOneTexture ==
    /\ \A i, j \in 0..(renderer_data.texture_slot_index - 1) :
           i # j => renderer_data.textures[i] # renderer_data.textures[j]
    /\ (/\ scene.tracked /\ scene.open /\ scene.quads >= 1
        /\ \E h \in TextureIds : scene.handles = {h})
       => renderer_data.texture_slot_index = 1

TexturesReferenced == Cardinality(scene.handles \ {NoHandle})
FullBatchQuads == MAX_VERTEX_COUNT \div QUAD_VERTEX_COUNT

(* C9: a scene of MAX_VERTEX_COUNT/4 + 1 quads (whose textures do not fill
   the slot table) causes no submission before its last quad, exactly one
   by its last quad, which uploads the MAX_VERTEX_COUNT/4 earlier quads, and
   a second one at EndScene, which uploads the remaining quad. *)
C9_TwoSubmissions ==
    (scene.tracked /\ TexturesReferenced < MAX_TEXTURE_SLOTS) =>
        /\ (scene.open /\ scene.quads <= FullBatchQuads) => scene.flushes = 0
        /\ (scene.open /\ scene.quads = FullBatchQuads + 1) =>
              /\ scene.flushes = 1
              /\ Len(Submitted) = 1
              /\ Submitted[1].vertex_buf_size = FullBatchQuads * 4
              /\ Submitted[1].index_buf_size = FullBatchQuads * 6
        /\ (~scene.open /\ scene.quads = FullBatchQuads + 1) =>
              /\ scene.flushes = 2
              /\ Len(Submitted) = 1
              /\ Submitted[1].vertex_buf_size = 4
              /\ Submitted[1].index_buf_size = 6

(* C9 witness: the scene of MAX_VERTEX_COUNT/4 + 1 quads has ended. *)
C9_Witness ==
    /\ scene.tracked /\ ~scene.open
    /\ scene.quads = FullBatchQuads + 1
    /\ TexturesReferenced < MAX_TEXTURE_SLOTS
    /\ scene.flushes = 2

SceneOfQuadsEnded ==
    /\ scene.tracked /\ ~scene.open
    /\ scene.quads * 4 <= MAX_VERTEX_COUNT

OneFlushOfWholeScene ==
    /\ scene.flushes = 1
    /\ Len(Submitted) = 1
    /\ Submitted[1].vertex_buf_size = scene.quads * 4
    /\ Submitted[1].index_buf_size = scene.quads * 6

(* C10 as stated: a scene of N quads of any variant, textured or not, with
   N*4 <= MAX_VERTEX_COUNT is flushed exactly once, at EndScene, with N*4
   vertices and N*6 indices. *)
C10_OneFlushAnyQuads == SceneOfQuadsEnded => OneFlushOfWholeScene

(* C10 amended: the same for a scene whose quads reference fewer than
   MAX_TEXTURE_SLOTS distinct texture handles. *)
C10_OneFlushFewTextures ==
    (SceneOfQuadsEnded /\ TexturesReferenced < MAX_TEXTURE_SLOTS)
        => OneFlushOfWholeScene

(* C10 witness: a scene of several quads, one of them textured, has ended. *)
C10_Witness ==
    /\ SceneOfQuadsEnded
    /\ scene.quads >= 2
    /\ TexturesReferenced = MAX_TEXTURE_SLOTS - 1
    /\ TexturesReferenced >= 1
    /\ OneFlushOfWholeScene

FreshBatchScene == scene.tracked /\ scene.open /\ scene.quads <= FullBatchQuads

(* C11 as stated: in a fresh batch, references to MAX_TEXTURE_SLOTS distinct
   textures cause no flush; only a further distinct texture forces one. *)
C11_NoFlushAtLastSlot ==
    (FreshBatchScene /\ TexturesReferenced = MAX_TEXTURE_SLOTS) => scene.flushes = 0

(* C11 amended: in a fresh batch, references to fewer than MAX_TEXTURE_SLOTS
   distinct textures cause no flush and occupy one slot each; the reference
   to the MAX_TEXTURE_SLOTS-th distinct texture forces the flush and leaves
   an empty table, and slot 0 of the following batch is occupied by a texture
   referenced after that flush. *)
C11_FlushAtLastSlot ==
    FreshBatchScene =>
        /\ TexturesReferenced < MAX_TEXTURE_SLOTS =>
              /\ scene.flushes = 0
              /\ renderer_data.texture_slot_index = TexturesReferenced
        /\ TexturesReferenced >= MAX_TEXTURE_SLOTS => scene.flushes >= 1
        /\ Len(Submitted) = 1 =>
              /\ Submitted[1].texture_slot_index = MAX_TEXTURE_SLOTS
              /\ renderer_data.texture_slot_index = 0
        /\ (scene.flushes >= 1 /\ renderer_data.texture_slot_index >= 1) =>
              <<0, renderer_data.textures[0]>> \in renderer_data.vertex_tex

(* C11 witness: after the flush forced by the MAX_TEXTURE_SLOTS-th texture, a
   further reference has taken slot 0 of the following batch. *)
C11_Witness ==
    /\ FreshBatchScene
    /\ scene.flushes = 1
    /\ Len(Submitted) = 0
    /\ renderer_data.texture_slot_index = 1
    /\ <<0, renderer_data.textures[0]>> \in renderer_data.vertex_tex

RECURSIVE QuadGroups(_, _)
QuadGroups(b, n) ==
    IF n = 0 THEN << >>
    ELSE <<b, b + 1, b + 2, b + 2, b + 3, b>> \o QuadGroups(b + 4, n - 1)

(* the call leading to `after` wrote n square index groups behind what the
   batch held (nothing, if the call restarted the batch first) *)
SquaresWritten(after, n) ==
    LET restarted == Len(after.submitted) > 0
        b == IF restarted THEN 0 ELSE renderer_data.index_offset
        held == IF restarted THEN << >> ELSE renderer_data.indices
        counted == IF restarted THEN 0
                   ELSE renderer_data.current_draw_command_vertex_size
    IN  /\ after.indices = held \o QuadGroups(b, n)
        /\ after.index_offset = b + 4 * n
        /\ after.current_draw_command_vertex_size = counted + 6 * n

(* C12: a quad emitted at running index offset b writes [b,b+1,b+2,b+2,b+3,b]
   ([0,1,2,2,3,0] in a fresh batch), advances the offset by 4 and the
   command's index counter by 6; a cube writes 6 such consecutive groups
   (36 indices, offset + 24, counter + 36). *)
C12_QuadIndexPattern ==
    (scene.open /\ CanEmit) =>
        /\ SquaresWritten(DrawQuad(Call, NoTexture, NoHandle), 1)
        /\ SquaresWritten(DrawCube(Call, NoTexture, NoHandle), CUBE_FACES)
        /\ \A texture \in TextureIds :
              /\ SquaresWritten(DrawQuadTextured(Call, texture), 1)
              /\ SquaresWritten(DrawCubeTextured(Call, texture), CUBE_FACES)

(* C12 witness: a second quad was written at offset 4 behind the first. *)
C12_Witness ==
    /\ scene.tracked /\ scene.open /\ scene.quads = 2
    /\ renderer_data.indices = <<0, 1, 2, 2, 3, 0, 4, 5, 6, 6, 7, 4>>
    /\ renderer_data.index_offset = 8
    /\ renderer_data.current_draw_command_vertex_size = 12

(* C16: a triangle emission triggers a flush-and-restart if and only if
   vertices_in_batch + 3 > MAX_VERTEX_COUNT. *)
C16_TriangleFlushIffNoRoom ==
    [][ DrawTrianglePlain =>
          ((Len(renderer_data'.submitted) > 0) <=>
           (renderer_data.num_of_vertices_in_batch + TRIANGLE_VERTEX_COUNT
              > MAX_VERTEX_COUNT)) ]_vars

(* C18: the indices written in a batch never exceed 3/2 of the vertex
   capacity (post-call at most 6 indices per 4 vertices in the batch), and no
   index is written past the end of the staging index array. *)
C18_IndexCapacity ==
    /\ "index" \notin renderer_data.overrun
    /\ Begun =>
          /\ 2 * renderer_data.index_ptr <= 3 * renderer_data.num_of_vertices_in_batch
          /\ 2 * renderer_data.index_ptr <= 3 * MAX_VERTEX_COUNT
          /\ renderer_data.index_ptr <= MAX_INDEX_COUNT
    /\ \A sub \in Submissions :
          /\ 2 * sub.index_buf_size <= 3 * MAX_VERTEX_COUNT
          /\ sub.index_buf_size <= MAX_INDEX_COUNT

(* C18 witness: a batch full of quads holds 6 indices per 4 vertices. *)
C18_Witness ==
    /\ scene.open
    /\ renderer_data.num_of_vertices_in_batch = FullBatchQuads * 4
    /\ renderer_data.index_ptr = FullBatchQuads * 6

(* C19: in an open scene, between calls, the vertex cursor's distance from
   the buffer start equals vertices_in_batch and the index cursor's distance
   equals the accumulated index counter of the command being built. *)
C19_CursorsMatchCounters ==
    scene.open =>
        /\ renderer_data.vertices_ptr = renderer_data.num_of_vertices_in_batch
        /\ renderer_data.index_ptr = renderer_data.current_draw_command_vertex_size

(* C13: within a batch, the base_vert recorded in command i+1 equals the
   base_vert recorded in command i plus the number of vertices emitted while
   command i was accumulating. *)
C13_BaseVertexChain ==
    \A i \in 0..(MAX_DRAW_COMMANDS - 2) :
        (i \in renderer_data.finalized /\ (i + 1) \in renderer_data.finalized) =>
            renderer_data.draw_commands[i + 1].base_vertex =
                renderer_data.draw_commands[i].base_vertex + renderer_data.drawn[i]

(* the float the material id is said to be carried as: -1 while unset, the
   id itself once set *)
MinusOne == [sign |-> 1, mant |-> 1, exp |-> 0]
ClaimedMaterial(id) ==
    IF id = UnsetMaterialId THEN MinusOne ELSE Float(0, id.hi * 65536 + id.lo, 0)

(* C14: every staged vertex carries, as its float material id, -1 if it was
   emitted while no material id was set since BeginScene, and m if it was
   emitted after SetMaterialId(m). *)
C14_VerticesCarryMaterial ==
    \A v \in renderer_data.vertex_material : v[2] = ClaimedMaterial(v[1])

BatchReset(b) ==
    /\ b.texture_slot_index = 0
    /\ b.num_of_vertices_in_batch = 0
    /\ b.index_offset = 0
    /\ b.base_vert = 0
    /\ b.draw_count = 0
    /\ b.current_draw_command_vertex_size = 0
    /\ b.vertices_ptr = 0
    /\ b.index_ptr = 0

SceneStateKept(a, b) ==
    /\ b.current_shader = a.current_shader
    /\ b.current_material_id = a.current_material_id
    /\ b.proj_view = a.proj_view
    /\ b.camera = a.camera
    /\ b.flags = a.flags

(* C17: StartBatch, alone or behind Render in a flush-and-restart, zeroes
   texture_slot_count, vertices_in_batch, index_offset, base_vert,
   command_count and the index counter, rewinds both cursors, clears no more
   than the slot table, and keeps the active shader, material id, proj_view,
   camera and flags (so does a quad call that flushes); BeginScene
   also resets the shader to the default one and the material id to unset. *)
C17_StartBatchResets ==
    /\ BatchReset(StartBatch(renderer_data))
    /\ SceneStateKept(renderer_data, StartBatch(renderer_data))
    /\ "textures" \notin StartBatch(renderer_data).overrun
    /\ Begun => /\ BatchReset(NewBatch(renderer_data))
                /\ SceneStateKept(renderer_data, NewBatch(renderer_data))
    /\ CanEmit =>
          \A texture \in TextureIds :
              Len(DrawQuadTextured(Call, texture).submitted) > 0 =>
                  SceneStateKept(renderer_data, DrawQuadTextured(Call, texture))
    /\ \A camera \in Cameras, flags \in RenderFlagsValues :
          /\ BatchReset(BeginSceneWith(renderer_data, camera, flags))
          /\ BeginSceneWith(renderer_data, camera, flags).current_shader = "default"
          /\ BeginSceneWith(renderer_data, camera, flags).current_material_id
                = UnsetMaterialId

(* C17 witness: a quad's flush-and-restart cleared a full slot table under a
   custom shader, a set material id and non-default camera and flags. *)
C17_Witness ==
    /\ scene.open
    /\ Len(Submitted) = 1
    /\ Submitted[1].texture_slot_index = MAX_TEXTURE_SLOTS
    /\ renderer_data.texture_slot_index = 0
    /\ \A i \in DOMAIN renderer_data.textures : renderer_data.textures[i] = 0
    /\ renderer_data.current_shader = "custom"
    /\ renderer_data.current_material_id \in MaterialIds
    /\ renderer_data.camera # DefaultCamera
    /\ renderer_data.flags = 1

BatchFields(s) ==
    <<s.vertices_ptr, s.index_ptr, s.num_of_vertices_in_batch, s.index_offset,
      s.textures, s.texture_slot_index, s.draw_commands, s.draw_count>>

(* C20: SetShader, SetShaderToDefualt, SetMaterialId and Submit submit
   nothing and leave the cursors, vertices_in_batch, index_offset, the slot
   table, the draw-command table and command_count unchanged; the shader
   setters change only the active shader, SetMaterialId only the material
   id.  Every flush binds the shader active at that moment, and that is the
   shader the batch's primitives were emitted under when no shader setter
   ran in between. *)
C20_SettersDoNotFlush ==
    [][ /\ (CallSetShader \/ CallSetShaderToDefualt \/ CallSetMaterialId \/ CallSubmit) =>
              /\ Len(renderer_data'.submitted) = 0
              /\ BatchFields(renderer_data') = BatchFields(renderer_data)
        /\ (CallSetShader \/ CallSetShaderToDefualt) =>
              renderer_data' = [Call EXCEPT !.current_shader = renderer_data'.current_shader]
        /\ CallSetMaterialId =>
              renderer_data' =
                  [Call EXCEPT !.current_material_id = renderer_data'.current_material_id]
        /\ \A k \in 1..Len(renderer_data'.submitted) :
              renderer_data'.submitted[k].shader = renderer_data.current_shader
        /\ (/\ ~(CallSetShader \/ CallSetShaderToDefualt)
            /\ renderer_data.vertex_shader \subseteq {renderer_data.current_shader}) =>
              /\ renderer_data'.vertex_shader \subseteq {renderer_data'.current_shader}
              /\ \A k \in 1..Len(renderer_data'.submitted) :
                    renderer_data'.submitted[k].vertex_shader
                        \subseteq {renderer_data'.submitted[k].shader} ]_vars

(* C20 witness: a batch emitted under the default shader was submitted with
   the custom shader set before the flush. *)
C20_Witness ==
    \E sub \in Submissions :
        /\ sub.vertex_buf_size > 0
        /\ sub.vertex_shader = {"default"}
        /\ sub.shader = "custom"

RECURSIVE VerticesUploaded(_, _)
VerticesUploaded(sub, n) ==
    IF n = 0 THEN 0 ELSE VerticesUploaded(sub, n - 1) + sub[n].vertex_buf_size

RECURSIVE IndicesUploaded(_, _)
IndicesUploaded(sub, n) ==
    IF n = 0 THEN 0 ELSE IndicesUploaded(sub, n - 1) + sub[n].index_buf_size

(* what RenderText of `text` at x with scale_x leaves, from the present state *)
TextRendered(after, font, text, x, scale_x) ==
    LET n == Len(text)
        q == after.text_quads
        flushes == Len(after.submitted)
    IN  /\ Len(q) = n
        /\ VerticesUploaded(after.submitted, flushes) + after.vertices_ptr
              - renderer_data.vertices_ptr = 4 * n
        /\ IndicesUploaded(after.submitted, flushes) + after.index_ptr
              - renderer_data.index_ptr = 6 * n
        /\ \A k \in 1..n :
              /\ q[k].character = text[k]
              /\ q[k].xpos = q[k].cursor + font.glyphs[text[k]].bearing_x * scale_x
        /\ n >= 1 => q[1].cursor = x
        /\ \A k \in 1..(n - 1) :
              q[k + 1].cursor =
                  q[k].cursor + (font.glyphs[text[k]].advance_x \div 64) * scale_x

(* C15: RenderText on a string of n characters emits exactly n quads, one
   per character in string order, the first at the given x, and the cursor
   of character k+1 is the cursor of character k plus
   (advance_x of character k >> 6) * scale.x. *)
C15_TextQuads ==
    (scene.open /\ CanEmit) =>
        \A font \in Fonts, text \in Texts, x \in TextPositions, scale_x \in TextScales :
            TextRendered(RenderText(Call, font, text, x, scale_x), font, text, x, scale_x)

(* C15 witness: "AB" at x = 3 with scale 2 left two quads, B's cursor
   (700 >> 6) * 2 = 20 behind A's. *)
C15_Witness ==
    /\ Len(renderer_data.text_quads) = 2
    /\ renderer_data.text_quads[1] = [character |-> "A", cursor |-> 3, xpos |-> 5]
    /\ renderer_data.text_quads[2] = [character |-> "B", cursor |-> 23, xpos |-> 27]

====
